---- MODULE Spec2Model ----
(***************************************************************************)
(* Client-side audio/text pipeline of the interview page:                  *)
(*   - the text-chunk buffer of InterviewPage (processTextBuffer and the   *)
(*     text_chunk / text_complete socket handlers), and                    *)
(*   - the playback queue hook useAudioQueue (React state, refs, effects   *)
(*     and the Web Audio sources it starts and stops).                     *)
(*   - the transcription session useSpeechToText and the page's own        *)
(*     effects and handlers (send-transcript effect, startCall, stopCall). *)
(* and the server side of an interview session: the join of a socket      *)
(* (handleInterview, activeSessions) and the conversation of a session     *)
(* (start_interview, user_response, the stage and the question counter).   *)
(*                                                                         *)
(* Text is a sequence of characters.  A character is 0 (any character \s   *)
(* matches) or a positive number: the position of that non-blank character *)
(* in the stream of all characters received from the server, so that every *)
(* non-blank character of the stream is distinguishable from every other.  *)
(***************************************************************************)
EXTENDS Integers, Sequences, FiniteSets, TLC

VARIABLES
    \* ---- InterviewPage refs (page.tsx 27-33)
    textBuffer,          \* textBufferRef.current
    isProcessing,        \* isProcessingRef.current
    pendingFlush,        \* pendingFlushRef.current
    \* ---- calls of textToAudioBuffer that have not settled yet (page.tsx 98)
    converting,
    resetMark,           \* history: how many characters had been received
                         \* when the buffer was last reset
    \* ---- history of the buffer (not read by the program)
    appended,            \* every character received in text_chunk events, in order
    synthLog,            \* every text passed to textToAudioBuffer, in call order
    synthFailed,         \* TRUE once a call of textToAudioBuffer has rejected
    last,                \* the last buffer event and what it saw (and, of the
                         \* flushes deferred by the conversion it ended, how
                         \* many there were and whether text came between): the lock and
                         \* the deferred-flush flag before it, the buffer its
                         \* flush attempt read, the conversions started before
                         \* it, the text_chunk events so far, whether a
                         \* text_complete followed the last text_chunk, and
                         \* the text_complete events so far (counted up to 2)
    \* ---- useAudioQueue: React state as of the last committed render
    queue, isPlaying, currentPlayingText,
    isUserSpeaking,      \* the hook's argument in the last committed render
    \* ---- useAudioQueue: state updates scheduled since the last render
    updQueue, updPlaying, updText,
    effectsPending,      \* the last render's passive effects have not run yet
    \* ---- useAudioQueue refs and its optional argument
    currentSourceRef, hasPlayedFirstAudio, hasCallback,
    \* ---- the caller's speaking state (useSpeechToText's isSpeaking)
    isSpeaking,
    \* ---- Web Audio: sources that sound, and "ended" events not yet delivered
    sounding, endedQueued,
    \* ---- history of the queue (not read by the program)
    nextId, enqueued, started, firstAudioCalls, startsSinceReset,
    failedStarts,        \* the items whose playback failed to start, in order
    discarded,           \* the sources silenced by stop() whose "ended" event
                         \* is not delivered yet
    \* ---- useSpeechToText: React state as of the last committed render
    isTranscribing, finalizedTranscripts, currentTranscript,
    \* ---- useSpeechToText: state updates scheduled since the last render
    \* (those of isSpeaking are the variable isSpeaking: its latest value)
    updTranscribing, updFinalized, updTranscript,
    \* ---- useSpeechToText refs (Hero.tsx 58, 68-73)
    isSpeakingRef, speechFinalReceivedRef,
    sttSocket,           \* socketRef: "none", or the connection's state
    streamRef,           \* streamRef.current is set (the microphone is held)
    startPending,        \* startCall awaits startTranscription (page.tsx 239)
    \* ---- InterviewPage state, refs and socket (page.tsx 19-24)
    callActive, updCallActive, lastTranscriptRef,
    socket,              \* "connecting", "connected" or "disconnected"
    changed,             \* the states whose value changed in the last commit
    \* ---- history of the page (not read by the program)
    sent,                \* the events emitted on the socket, in order
    lastCall,            \* the last event of the page or the session and what
                         \* it saw, and the numbers of final transcripts
                         \* received and of startCall calls so far
    \* ---- the server: interviewHandler.ts
    activeSessions,      \* the keys of the map activeSessions (7)
    sockets,             \* per socket: whether it is connected, how far its
                         \* handleInterview call got, and whether the call
                         \* registered its disconnect handler (36-39)
    serverProcessing,    \* let isProcessing of a session (85)
    \* ---- the server: the InterviewContext of a session (64-79)
    stage, questionsAsked,
    handling,            \* the handler of the session that is suspended at
                         \* an await, "none" if there is none
    serverHist           \* history: the messages received, the user_response
                         \* messages among them, the replies to those, the
                         \* interview questions put to the user, the last event

bufVars == <<textBuffer, isProcessing, pendingFlush, converting, resetMark,
             appended, synthLog, synthFailed, last>>
hookVars == <<queue, isPlaying, currentPlayingText, isUserSpeaking,
              updPlaying, updText, effectsPending,
              currentSourceRef, hasPlayedFirstAudio, hasCallback, isSpeaking,
              sounding, endedQueued, started, firstAudioCalls, startsSinceReset, failedStarts,
              discarded>>
sessVars == <<isTranscribing, finalizedTranscripts, currentTranscript,
              updTranscribing, updFinalized, updTranscript,
              isSpeakingRef, speechFinalReceivedRef, sttSocket, streamRef,
              startPending>>
pageVars == <<callActive, updCallActive, lastTranscriptRef, socket, changed,
              sent, lastCall>>
serverVars == <<activeSessions, sockets, serverProcessing, stage, questionsAsked,
                handling, serverHist>>
callVars == <<sessVars, pageVars, serverVars>>
vars == <<bufVars, hookVars, updQueue, nextId, enqueued, callVars>>

(***************************************************************************)
(* Bounds of the model and constants of the program.                       *)
(***************************************************************************)
MaxSockets == 3           \* sockets that connect to the server
MaxMessages == 8          \* messages a server session receives
Sockets == 1..MaxSockets
MaxAppends == 3          \* text_chunk events per behaviour
MaxItems == 3            \* enqueue calls per behaviour of the queue alone
BatchWords == 20         \* page.tsx 80, 88, 89, 111

Min(a, b) == IF a < b THEN a ELSE b

(***************************************************************************)
(* String functions of JavaScript used by the page.                        *)
(***************************************************************************)
RECURSIVE trimStart(_)
trimStart(s) == IF s # <<>> /\ Head(s) = 0 THEN trimStart(Tail(s)) ELSE s

RECURSIVE trimEnd(_)
trimEnd(s) ==
    IF s # <<>> /\ s[Len(s)] = 0 THEN trimEnd(SubSeq(s, 1, Len(s) - 1)) ELSE s

\* String.prototype.trim
trim(s) == trimEnd(trimStart(s))

RECURSIVE runs(_)
\* the maximal runs of non-blank characters of s, in order (by halving s)
runs(s) ==
    IF Len(s) = 0 THEN <<>>
    ELSE IF Len(s) = 1 THEN (IF s[1] = 0 THEN <<>> ELSE <<s>>)
    ELSE LET m == Len(s) \div 2
             l == runs(SubSeq(s, 1, m))
             r == runs(SubSeq(s, m + 1, Len(s)))
         IN  IF s[m] # 0 /\ s[m + 1] # 0
             THEN SubSeq(l, 1, Len(l) - 1) \o <<l[Len(l)] \o r[1]>> \o Tail(r)
             ELSE l \o r

\* s.split(/\s+/): the pieces between maximal runs of blanks: [""] for "", and
\* an empty piece before a leading and after a trailing run of blanks
split(s) ==
    (IF s = <<>> \/ s[1] = 0 THEN << <<>> >> ELSE <<>>)
    \o runs(s)
    \o (IF s # <<>> /\ s[Len(s)] = 0 THEN << <<>> >> ELSE <<>>)

RECURSIVE join(_)
\* words.join(' ') (by halving words)
join(words) ==
    IF words = <<>> THEN <<>>
    ELSE IF Len(words) = 1 THEN words[1]
    ELSE LET m == Len(words) \div 2
         IN  join(SubSeq(words, 1, m)) \o <<0>>
             \o join(SubSeq(words, m + 1, Len(words)))

\* words.slice(a, b) on 0-based indices
slice(words, a, b) == SubSeq(words, a + 1, Min(b, Len(words)))

\* countWords (page.tsx 57-59)
countWords(text) == Len(SelectSeq(split(trim(text)), LAMBDA w : w # <<>>))

extractLastNWords(text, n) ==
    LET words == split(trim(text))
    IN  [batch |-> join(slice(words, Len(words) - Min(n, Len(words)), Len(words))),
         remainder |-> join(slice(words, 0, Len(words) - Min(n, Len(words))))]

extractFirstNWordsLosesRest(text, n) ==
    LET words == split(trim(text))
    IN  [batch |-> join(slice(words, 0, n)), remainder |-> <<>>]

\* extractFirstNWords (page.tsx 61-66)
extractFirstNWords(text, n) ==
    LET words == split(trim(text))
    IN  [batch |-> join(slice(words, 0, n)),
         remainder |-> join(slice(words, n, Len(words)))]

(***************************************************************************)
(* The text-chunk buffer.                                                  *)
(***************************************************************************)
\* The refs processTextBuffer reads and writes, as one value.
BufferState ==
    [textBuffer |-> textBuffer, isProcessing |-> isProcessing,
     pendingFlush |-> pendingFlush, converting |-> converting,
     synthLog |-> synthLog]

LockIgnored(s) == FALSE

\* the test of the lock (page.tsx 70)
LockHeld(s) == s.isProcessing

ShouldConvertOverThreshold(wordCount, forceFlush) ==
    wordCount > BatchWords \/ (forceFlush /\ wordCount > 0)

\* the condition to start a conversion (page.tsx 80)
ShouldConvert(wordCount, forceFlush) ==
    wordCount >= BatchWords \/ (forceFlush /\ wordCount > 0)

FlushRequestToggled(pending) == ~pending

\* pendingFlushRef.current = true (page.tsx 72)
FlushRequested(pending) == TRUE

\* processTextBuffer up to its await (page.tsx 68-98): the state it leaves
ProcessTextBuffer(s, forceFlush) ==
    IF LockHeld(s)
    THEN IF forceFlush THEN [s EXCEPT !.pendingFlush = FlushRequested(@)] ELSE s
    ELSE LET currentBuffer == s.textBuffer
             wordCount == countWords(currentBuffer)
             cut == ~forceFlush /\ wordCount >= BatchWords
             extracted == extractFirstNWords(currentBuffer, BatchWords)
             textToConvert == IF cut THEN extracted.batch ELSE currentBuffer
             remainder == IF cut THEN extracted.remainder ELSE <<>>
         IN  IF ShouldConvert(wordCount, forceFlush)
             THEN [s EXCEPT !.isProcessing = TRUE,
                            !.textBuffer = remainder,
                            !.converting = Append(@, textToConvert),
                            !.synthLog = Append(@, textToConvert)]
             ELSE s

AfterConversionDropsFlush(s) ==
    LET s1 == [s EXCEPT !.isProcessing = FALSE]
    IN  IF countWords(s1.textBuffer) >= BatchWords
        THEN ProcessTextBuffer(s1, FALSE)
        ELSE s1

AfterConversionEmptiesBuffer(s) ==
    LET s1 == [s EXCEPT !.isProcessing = FALSE, !.textBuffer = <<>>]
    IN  IF s1.pendingFlush
        THEN ProcessTextBuffer([s1 EXCEPT !.pendingFlush = FALSE], TRUE)
        ELSE s1

AfterConversionKeepsLock(s) == s

AfterConversionSkipsThreshold(s) ==
    LET s1 == [s EXCEPT !.isProcessing = FALSE]
    IN  IF s1.pendingFlush
        THEN ProcessTextBuffer([s1 EXCEPT !.pendingFlush = FALSE], TRUE)
        ELSE s1

\* the finally block of processTextBuffer (page.tsx 100-116)
AfterConversion(s) ==
    LET s1 == [s EXCEPT !.isProcessing = FALSE]
    IN  IF s1.pendingFlush
        THEN ProcessTextBuffer([s1 EXCEPT !.pendingFlush = FALSE], TRUE)
        ELSE IF countWords(s1.textBuffer) >= BatchWords
             THEN ProcessTextBuffer(s1, FALSE)
             ELSE s1

SetBufferState(s) ==
    /\ textBuffer' = s.textBuffer
    /\ isProcessing' = s.isProcessing
    /\ pendingFlush' = s.pendingFlush
    /\ converting' = s.converting
    /\ synthLog' = s.synthLog

(***************************************************************************)
(* What the server sends: a chunk is a pattern of non-blank (1) and blank  *)
(* (0) characters; the stream position is stamped on when it is received.  *)
(***************************************************************************)
WordRun(n) == [i \in 1..(2 * n) |-> IF i % 2 = 1 THEN 1 ELSE 0]

Chunks == { WordRun(BatchWords - 1), <<1>>, <<0>>, <<0, 1>> }

Stamp(pattern, base) ==
    [i \in 1..Len(pattern) |-> IF pattern[i] = 0 THEN 0 ELSE base + i]

RemoveAt(s, i) == SubSeq(s, 1, i - 1) \o SubSeq(s, i + 1, Len(s))

nAppends == last.appends

\* the text_complete events that found the lock held since the lock was last
\* taken (counted up to 2), and whether a text_chunk followed the first of them
DeferredSoFar == IF last.ev \in {"synth_ok", "synth_fail"} THEN 0 ELSE last.deferred
BetweenSoFar == last.ev \notin {"synth_ok", "synth_fail"} /\ last.between

\* setQueue: the updates of the queue state scheduled since the last render. A
\* plain value replaces whatever the updates before it produce, so only the
\* last plain value and the functional updates after it are kept.
Schedule(updates, u) ==
    IF u.op = "set" THEN <<u>> ELSE Append(updates, u)

\* enqueue (useAudioQueue.tsx 46-49): a functional update of the queue state
Enqueue(text) ==
    LET item == [id |-> nextId, text |-> text]
    IN  /\ updQueue' = Schedule(updQueue, [op |-> "append", items |-> <<item>>])
        /\ nextId' = nextId + 1
        /\ enqueued' = Append(enqueued, item)

\* socket.on('text_chunk') (page.tsx 152-160)
TextChunk(chunk) ==
    /\ nAppends < MaxAppends
    /\ LET data == Stamp(chunk, Len(appended))
           s0 == [BufferState EXCEPT !.textBuffer = @ \o data]
           s1 == ProcessTextBuffer(s0, FALSE)
       IN  /\ SetBufferState(s1)
           /\ appended' = appended \o data
           /\ last' = [ev |-> "text_chunk", busy |-> isProcessing,
                       pend |-> pendingFlush, buf |-> s0.textBuffer,
                       calls |-> Len(synthLog), appends |-> nAppends + 1,
                       flushed |-> FALSE, flushes |-> last.flushes,
                       deferred |-> IF isProcessing THEN DeferredSoFar ELSE 0,
                       between |-> isProcessing
                                   /\ (BetweenSoFar \/ DeferredSoFar >= 1)]
    /\ UNCHANGED <<synthFailed, resetMark, hookVars, callVars,
                   updQueue, nextId, enqueued>>

\* socket.on('text_complete') (page.tsx 163-169)
TextComplete ==
    /\ SetBufferState(ProcessTextBuffer(BufferState, TRUE))
    /\ last' = [ev |-> "text_complete", busy |-> isProcessing,
                pend |-> pendingFlush, buf |-> textBuffer,
                calls |-> Len(synthLog), appends |-> nAppends,
                flushed |-> TRUE, flushes |-> Min(last.flushes + 1, 2),
                deferred |-> IF isProcessing THEN Min(DeferredSoFar + 1, 2) ELSE 0,
                between |-> isProcessing /\ BetweenSoFar]
    /\ UNCHANGED <<appended, synthFailed, resetMark, hookVars, callVars,
                   updQueue, nextId, enqueued>>

\* the await of textToAudioBuffer settles (page.tsx 98-116); ok: it resolved
SynthesisDone(i, ok) ==
    /\ i \in 1..Len(converting)
    /\ LET textToConvert == converting[i]
           s0 == [BufferState EXCEPT !.converting = RemoveAt(@, i)]
       IN  /\ IF ok THEN Enqueue(textToConvert)
                    ELSE UNCHANGED <<updQueue, nextId, enqueued>>
           /\ SetBufferState(AfterConversion(s0))
           /\ synthFailed' = (synthFailed \/ ~ok)
           /\ last' = [ev |-> IF ok THEN "synth_ok" ELSE "synth_fail",
                       busy |-> isProcessing, pend |-> pendingFlush,
                       buf |-> textBuffer, calls |-> Len(synthLog),
                       appends |-> nAppends, flushed |-> last.flushed,
                       flushes |-> last.flushes,
                       deferred |-> DeferredSoFar, between |-> BetweenSoFar]
    /\ UNCHANGED <<appended, resetMark, hookVars, callVars>>

(***************************************************************************)
(* Initial state: the page and the hook after mounting.                    *)
(***************************************************************************)
InitBufferVars ==
    /\ textBuffer = <<>>
    /\ isProcessing = FALSE
    /\ pendingFlush = FALSE
    /\ converting = <<>>
    /\ resetMark = 0
    /\ appended = <<>>
    /\ synthLog = <<>>
    /\ synthFailed = FALSE
    /\ last = [ev |-> "init", busy |-> FALSE, pend |-> FALSE, buf |-> <<>>,
               calls |-> 0, appends |-> 0, flushed |-> FALSE, flushes |-> 0,
               deferred |-> 0, between |-> FALSE]

InitHookVars ==
    /\ queue = <<>>
    /\ isPlaying = FALSE
    /\ currentPlayingText = <<>>
    /\ isUserSpeaking = FALSE
    /\ updQueue = <<>>
    /\ updPlaying = <<>>
    /\ updText = <<>>
    /\ effectsPending = FALSE
    /\ currentSourceRef = 0
    /\ hasPlayedFirstAudio = FALSE
    /\ isSpeaking = FALSE
    /\ sounding = {}
    /\ endedQueued = {}
    /\ nextId = 1
    /\ enqueued = <<>>
    /\ started = <<>>
    /\ firstAudioCalls = 0
    /\ startsSinceReset = 0
    /\ failedStarts = <<>>
    /\ discarded = {}

\* the server with no session and every socket connected; the context of a
\* session as handleInterview creates it (interviewHandler.ts 64-85)
InitServerVars ==
    /\ activeSessions = {}
    /\ sockets = [s \in Sockets |-> [connected |-> TRUE, join |-> "none",
                                     cleanup |-> FALSE]]
    /\ serverProcessing = FALSE
    /\ stage = "greeting"
    /\ questionsAsked = 0
    /\ handling = "none"
    /\ serverHist = [messages |-> 0, responses |-> 0, replies |-> 0, put |-> 0,
                     ev |-> "init"]

\* useSpeechToText and InterviewPage after mounting (Hero.tsx 52-73, page.tsx
\* 19-33)
InitCallVars ==
    /\ InitServerVars
    /\ isTranscribing = FALSE
    /\ finalizedTranscripts = <<>>
    /\ currentTranscript = <<>>
    /\ updTranscribing = <<>>
    /\ updFinalized = <<>>
    /\ updTranscript = <<>>
    /\ isSpeakingRef = FALSE
    /\ speechFinalReceivedRef = FALSE
    /\ sttSocket = "none"
    /\ streamRef = FALSE
    /\ startPending = FALSE
    /\ callActive = FALSE
    /\ updCallActive = <<>>
    /\ lastTranscriptRef = <<>>
    /\ changed = {}
    /\ sent = <<>>
    /\ lastCall = [ev |-> "init", finals |-> 0, calls |-> 0]

\* the page calls useAudioQueue(isSpeaking) with no callback (page.tsx 47-54)
\* and receives text_chunk and text_complete on its connected socket
InitBuffer ==
    /\ InitBufferVars /\ InitHookVars /\ InitCallVars
    /\ hasCallback = FALSE /\ socket = "connected"

NextBuffer ==
    \/ \E chunk \in Chunks : TextChunk(chunk)
    \/ TextComplete
    \/ \E i \in 1..Len(converting), ok \in BOOLEAN : SynthesisDone(i, ok)

\* the buffer under text_chunk, text_complete and the settling of conversions
SpecBuffer == InitBuffer /\ [][NextBuffer]_vars

(***************************************************************************)
(* The playback queue hook useAudioQueue.                                  *)
(*                                                                         *)
(* React: a set-state call schedules an update; a render applies the       *)
(* updates scheduled so far and commits; the effects of a commit run after *)
(* it and before the next render, with the values of that commit.  Event   *)
(* handlers (a call of enqueue or clearQueue, an "ended" event, a change   *)
(* of the caller's speaking state) may run between any two of these.       *)
(*                                                                         *)
(* Web Audio: a source that was started sounds until its buffer is played  *)
(* to the end or stop() is called on it; either way an "ended" event is    *)
(* then queued for it and its onended handler runs when that is delivered. *)
(***************************************************************************)
RECURSIVE ApplyUpdates(_, _)
\* the queue state a render computes from the scheduled updates
ApplyUpdates(q, updates) ==
    IF updates = <<>> THEN q
    ELSE ApplyUpdates(IF Head(updates).op = "append"
                      THEN q \o Head(updates).items
                      ELSE Head(updates).items,
                      Tail(updates))

\* the value of a state whose scheduled updates are plain values
Latest(value, updates) == IF updates = <<>> THEN value ELSE updates[Len(updates)]

\* source.stop() on the source the ref holds (useAudioQueue.tsx 76-80,
\* 119-123, 132-136): a source that sounds falls silent and its "ended" event
\* is queued; on any other the call has no effect (what it throws is caught)
StoppedBy(ref) == IF ref \in sounding THEN {ref} ELSE {}

LastItemOf(q) == q[Len(q)]

RestKeepsHead(q) == q

\* const [nextItem, ...rest] = queue (useAudioQueue.tsx 66)
NextItemOf(q) == Head(q)
RestOf(q) == Tail(q)

\* how the try block of playNext ends (useAudioQueue.tsx 71-106): it runs to
\* its end, or a statement before currentSourceRef is assigned throws
\* (83-85), or source.start throws (95)
StartOutcomes == {"ok", "throws_before_source", "throws_at_start"}

FirstAudioFlagKept(flag) == flag

\* hasPlayedFirstAudioRef.current after the callback was called (99)
FirstAudioFlagSet(flag) == TRUE

\* a call of enqueue by the caller of the hook
EnqueueCall ==
    /\ nextId <= MaxItems
    /\ Enqueue(<<nextId>>)
    /\ UNCHANGED <<bufVars, callVars, hookVars>>

\* a render of the component that uses the hook
Render ==
    /\ ~effectsPending
    /\ \/ updQueue # <<>> \/ updPlaying # <<>> \/ updText # <<>>
       \/ isSpeaking # isUserSpeaking
    /\ queue' = ApplyUpdates(queue, updQueue)
    /\ isPlaying' = Latest(isPlaying, updPlaying)
    /\ currentPlayingText' = Latest(currentPlayingText, updText)
    /\ isUserSpeaking' = isSpeaking
    /\ updQueue' = <<>> /\ updPlaying' = <<>> /\ updText' = <<>>
    /\ effectsPending' = TRUE
    /\ UNCHANGED <<bufVars, callVars, currentSourceRef, hasPlayedFirstAudio, hasCallback,
                   isSpeaking, sounding, endedQueued, nextId, enqueued, started,
                   firstAudioCalls, startsSinceReset, failedStarts, discarded>>

AutoPlayCondition == Len(queue) > 0 /\ ~isPlaying /\ ~isUserSpeaking
InterruptCondition == isUserSpeaking /\ isPlaying

\* the auto-play effect (useAudioQueue.tsx 110-114) calling playNext (56-107)
AutoPlayEffect(outcome) ==
    /\ effectsPending /\ AutoPlayCondition
    /\ effectsPending' = FALSE
    /\ LET nextItem == NextItemOf(queue)
           rest == RestOf(queue)
           hadSource == outcome # "throws_before_source"
           starts == outcome = "ok"
           notifies == starts /\ ~hasPlayedFirstAudio /\ hasCallback
       IN  /\ updQueue' = Schedule(updQueue, [op |-> "set", items |-> rest])
           /\ updPlaying' = <<starts>>
           /\ updText' = <<IF starts THEN nextItem.text ELSE <<>> >>
           /\ endedQueued' = endedQueued \cup StoppedBy(currentSourceRef)
           /\ discarded' = discarded \cup StoppedBy(currentSourceRef)
           /\ sounding' = (sounding \ StoppedBy(currentSourceRef))
                            \cup (IF starts THEN {nextItem.id} ELSE {})
           /\ currentSourceRef' = IF hadSource THEN nextItem.id ELSE currentSourceRef
           /\ started' = IF starts THEN Append(started, nextItem.id) ELSE started
           /\ failedStarts' = IF starts THEN failedStarts
                               ELSE Append(failedStarts, nextItem.id)
           /\ startsSinceReset' = startsSinceReset + (IF starts THEN 1 ELSE 0)
           /\ hasPlayedFirstAudio' =
                IF notifies THEN FirstAudioFlagSet(hasPlayedFirstAudio)
                ELSE hasPlayedFirstAudio
           /\ firstAudioCalls' = firstAudioCalls + (IF notifies THEN 1 ELSE 0)
    /\ UNCHANGED <<bufVars, callVars, queue, isPlaying, currentPlayingText, isUserSpeaking,
                   hasCallback, isSpeaking, nextId, enqueued>>

\* the interrupt effect (useAudioQueue.tsx 117-128)
InterruptEffect ==
    /\ effectsPending /\ InterruptCondition
    /\ effectsPending' = FALSE
    /\ endedQueued' = endedQueued \cup StoppedBy(currentSourceRef)
    /\ discarded' = discarded \cup StoppedBy(currentSourceRef)
    /\ sounding' = sounding \ StoppedBy(currentSourceRef)
    /\ currentSourceRef' = 0
    /\ updPlaying' = <<FALSE>>
    /\ updText' = << <<>> >>
    /\ UNCHANGED <<bufVars, callVars, queue, isPlaying, currentPlayingText, isUserSpeaking,
                   updQueue, hasPlayedFirstAudio, hasCallback, isSpeaking, nextId,
                   enqueued, started, firstAudioCalls, startsSinceReset, failedStarts>>

\* the effects of a commit in which neither condition holds
NoEffect ==
    /\ effectsPending /\ ~AutoPlayCondition /\ ~InterruptCondition
    /\ effectsPending' = FALSE
    /\ UNCHANGED <<bufVars, callVars, queue, isPlaying, currentPlayingText, isUserSpeaking,
                   updQueue, updPlaying, updText, currentSourceRef,
                   hasPlayedFirstAudio, hasCallback, isSpeaking, sounding,
                   endedQueued, nextId, enqueued, started, firstAudioCalls,
                   startsSinceReset, failedStarts, discarded>>

\* the buffer of a sounding source is played to its end
AudioFinished(src) ==
    /\ src \in sounding
    /\ sounding' = sounding \ {src}
    /\ endedQueued' = endedQueued \cup {src}
    /\ UNCHANGED <<bufVars, callVars, queue, isPlaying, currentPlayingText, isUserSpeaking,
                   updQueue, updPlaying, updText, effectsPending, currentSourceRef,
                   hasPlayedFirstAudio, hasCallback, isSpeaking, nextId, enqueued,
                   started, firstAudioCalls, startsSinceReset, failedStarts, discarded>>

\* source.onended (useAudioQueue.tsx 89-93) for a queued "ended" event
OnEnded(src) ==
    /\ src \in endedQueued
    /\ endedQueued' = endedQueued \ {src}
    /\ discarded' = discarded \ {src}
    /\ updPlaying' = <<FALSE>>
    /\ updText' = << <<>> >>
    /\ currentSourceRef' = 0
    /\ UNCHANGED <<bufVars, callVars, queue, isPlaying, currentPlayingText, isUserSpeaking,
                   updQueue, effectsPending, hasPlayedFirstAudio, hasCallback,
                   isSpeaking, sounding, nextId, enqueued, started,
                   firstAudioCalls, startsSinceReset, failedStarts>>

\* clearQueue (useAudioQueue.tsx 131-141): what a call of it changes
clearQueue ==
    /\ endedQueued' = endedQueued \cup StoppedBy(currentSourceRef)
    /\ discarded' = discarded \cup StoppedBy(currentSourceRef)
    /\ sounding' = sounding \ StoppedBy(currentSourceRef)
    /\ currentSourceRef' = 0
    /\ updQueue' = Schedule(updQueue, [op |-> "set", items |-> <<>>])
    /\ updPlaying' = <<FALSE>>
    /\ updText' = << <<>> >>

\* a call of clearQueue by the caller of the hook
ClearQueue ==
    /\ clearQueue
    /\ UNCHANGED <<bufVars, callVars, queue, isPlaying, currentPlayingText, isUserSpeaking,
                   effectsPending, hasPlayedFirstAudio, hasCallback, isSpeaking,
                   nextId, enqueued, started, firstAudioCalls, startsSinceReset, failedStarts>>

\* resetFirstAudioFlag (useAudioQueue.tsx 51-53): what a call of it changes
resetFirstAudioFlag ==
    /\ hasPlayedFirstAudio' = FALSE
    /\ firstAudioCalls' = 0
    /\ startsSinceReset' = 0

\* a call of resetFirstAudioFlag by the caller of the hook
ResetFirstAudioFlag ==
    /\ resetFirstAudioFlag
    /\ UNCHANGED <<bufVars, callVars, queue, isPlaying, currentPlayingText, isUserSpeaking,
                   updQueue, updPlaying, updText, effectsPending, currentSourceRef,
                   hasCallback, isSpeaking, sounding, endedQueued, nextId,
                   enqueued, started, failedStarts, discarded>>

\* setSpeaking (Hero.tsx 62-66): the speaking state the page passes to the hook
SpeakingChange(v) ==
    /\ isSpeaking' = v
    /\ UNCHANGED <<bufVars, callVars, queue, isPlaying, currentPlayingText, isUserSpeaking,
                   updQueue, updPlaying, updText, effectsPending, currentSourceRef,
                   hasPlayedFirstAudio, hasCallback, sounding, endedQueued, nextId,
                   enqueued, started, firstAudioCalls, startsSinceReset, failedStarts, discarded>>

\* the hook with or without its optional onFirstAudioPlay (useAudioQueue.tsx 11)
InitQueue ==
    /\ InitBufferVars /\ InitHookVars /\ InitCallVars
    /\ hasCallback \in BOOLEAN /\ socket = "connecting"

NextQueue ==
    \/ EnqueueCall
    \/ Render
    \/ \E outcome \in StartOutcomes : AutoPlayEffect(outcome)
    \/ InterruptEffect
    \/ NoEffect
    \/ \E src \in sounding : AudioFinished(src)
    \/ \E src \in endedQueued : OnEnded(src)
    \/ ClearQueue
    \/ ResetFirstAudioFlag
    \/ \E v \in BOOLEAN : SpeakingChange(v)

\* the hook under every interleaving of its callers' calls, React's renders
\* and effects, and the events of its audio sources
SpecQueue == InitQueue /\ [][NextQueue]_vars

\* the hook while the caller stays silent, never clears the queue and every
\* playback starts (the try block of playNext runs to its end)
NextPlayback ==
    \/ EnqueueCall
    \/ Render
    \/ AutoPlayEffect("ok")
    \/ NoEffect
    \/ \E src \in sounding : AudioFinished(src)
    \/ \E src \in endedQueued : OnEnded(src)

\* React renders once an update is scheduled and runs the effects of every
\* commit (useAudioQueue.tsx 110-114); a source that was started plays to
\* its end and its "ended" event is delivered (89-93)
FairPlayback ==
    /\ WF_vars(Render)
    /\ WF_vars(AutoPlayEffect("ok"))
    /\ WF_vars(NoEffect)
    /\ WF_vars(\E src \in sounding : AudioFinished(src))
    /\ WF_vars(\E src \in endedQueued : OnEnded(src))

SpecPlayback == InitQueue /\ [][NextPlayback]_vars /\ FairPlayback

(***************************************************************************)
(* The page as a whole: the transcription session useSpeechToText, the     *)
(* page's effects and its startCall and stopCall, and the text-chunk       *)
(* buffer.  The hook useAudioQueue appears here through the calls the page *)
(* makes into it (enqueue, clearQueue, resetFirstAudioFlag); its renders   *)
(* and its playback are those of SpecQueue and are not repeated here.      *)
(*                                                                         *)
(* An utterance is a text; its characters are 0 (a blank) and letters.     *)
(***************************************************************************)
MaxFinals == 2           \* final transcripts received per behaviour
MaxCalls == 1            \* calls of startCall per behaviour
MaxPageAppends == 2      \* text_chunk events per behaviour of the page

Utterances == { <<1>> }
PageChunks == { <<1>> }

\* the variables grouped by the handlers that leave them alone
committedVars == <<isTranscribing, finalizedTranscripts, currentTranscript,
                   callActive, isUserSpeaking>>
queueState == <<queue, isPlaying, currentPlayingText, hasCallback, started,
                failedStarts, nextId, enqueued>>
clearVars == <<endedQueued, discarded, sounding, currentSourceRef, updQueue,
               updPlaying, updText>>
flagVars == <<hasPlayedFirstAudio, firstAudioCalls, startsSinceReset>>
bufRefs == <<textBuffer, isProcessing, pendingFlush, resetMark>>
bufHist == <<converting, appended, synthLog, synthFailed, last>>

nFinals == lastCall.finals
nCalls == lastCall.calls

\* setSpeaking (Hero.tsx 62-66)
setSpeaking(v) ==
    /\ isSpeakingRef' = v
    /\ isSpeaking' = v

UtteranceEndAlwaysTriggers(speechFinalReceived) == TRUE

\* the test of the UtteranceEnd branch (Hero.tsx 139)
UtteranceEndTriggers(speechFinalReceived) == ~speechFinalReceived

\* socket.onmessage for an UtteranceEnd message (Hero.tsx 130-149)
UtteranceEnd ==
    /\ sttSocket = "open"
    /\ IF UtteranceEndTriggers(speechFinalReceivedRef) THEN setSpeaking(FALSE)
       ELSE UNCHANGED <<isSpeakingRef, isSpeaking>>
    /\ speechFinalReceivedRef' = FALSE
    /\ lastCall' = [ev |-> "UtteranceEnd", finals |-> nFinals, calls |-> nCalls]
    /\ UNCHANGED <<bufVars, committedVars, queueState, clearVars, flagVars,
                   effectsPending, updTranscribing, updFinalized, updTranscript,
                   sttSocket, streamRef, startPending, updCallActive,
                   lastTranscriptRef, socket, changed, sent,
                   serverVars>>

HasTextAlways(result) == TRUE

\* the test if (!result) return, negated (Hero.tsx 157): null and the empty
\* string are dropped
HasText(result) == result # <<>>

\* the test of the speech-onset branch (Hero.tsx 161)
OnsetNeeded(speakingRef) == ~speakingRef

\* speechFinalReceivedRef.current = true (Hero.tsx 180)
FlagSetAtSpeechFinal(speechFinalReceived) == TRUE

\* socket.onmessage for a message that is not an UtteranceEnd (Hero.tsx
\* 130-133, 151-196): result is its transcript, the empty text when it has
\* none
Transcript(result, isFinal, speechFinal) ==
    /\ sttSocket = "open"
    /\ IF ~HasText(result)
       THEN /\ UNCHANGED <<isSpeakingRef, isSpeaking, updFinalized,
                           speechFinalReceivedRef, updTranscript>>
            /\ lastCall' = [ev |-> "dropped", finals |-> nFinals, calls |-> nCalls]
       ELSE /\ isFinal => nFinals < MaxFinals
            /\ IF isFinal /\ speechFinal THEN setSpeaking(FALSE)
               ELSE IF OnsetNeeded(isSpeakingRef) THEN setSpeaking(TRUE)
               ELSE UNCHANGED <<isSpeakingRef, isSpeaking>>
            /\ updFinalized' =
                 IF isFinal
                 THEN Schedule(updFinalized, [op |-> "append", items |-> <<result>>])
                 ELSE updFinalized
            /\ speechFinalReceivedRef' =
                 IF isFinal /\ speechFinal
                 THEN FlagSetAtSpeechFinal(speechFinalReceivedRef)
                 ELSE speechFinalReceivedRef
            /\ updTranscript' =
                 IF ~isFinal THEN <<result>>
                 ELSE IF speechFinal THEN << <<>> >> ELSE updTranscript
            /\ lastCall' = [ev |-> IF ~isFinal THEN "interim"
                                   ELSE IF speechFinal THEN "speech_final"
                                   ELSE "final",
                            finals |-> nFinals + (IF isFinal THEN 1 ELSE 0),
                            calls |-> nCalls]
    /\ UNCHANGED <<bufVars, committedVars, queueState, clearVars, flagVars,
                   effectsPending, updTranscribing, sttSocket, streamRef,
                   startPending, updCallActive, lastTranscriptRef, socket,
                   changed, sent,
                   serverVars>>

\* socket.onmessage for a message whose handling throws (Hero.tsx 131-132,
\* 193-195): JSON.parse rejects it, or it parses to null; the catch logs it
UnparseableMessage ==
    /\ sttSocket = "open"
    /\ lastCall' = [ev |-> "dropped", finals |-> nFinals, calls |-> nCalls]
    /\ UNCHANGED <<bufVars, hookVars, updQueue, nextId, enqueued, sessVars,
                   callActive, updCallActive, lastTranscriptRef, socket,
                   changed, sent,
                   serverVars>>

\* stopTranscription (Hero.tsx 205-226)
stopTranscription ==
    /\ sttSocket' = "none"
    /\ streamRef' = FALSE
    /\ setSpeaking(FALSE)
    /\ speechFinalReceivedRef' = FALSE
    /\ updTranscribing' = <<FALSE>>
    /\ updTranscript' = << <<>> >>

\* a render of InterviewPage: the scheduled updates of the session's and the
\* page's states are applied and committed
PageRender ==
    /\ ~effectsPending
    /\ \/ updTranscribing # <<>> \/ updFinalized # <<>> \/ updTranscript # <<>>
       \/ updCallActive # <<>> \/ isSpeaking # isUserSpeaking
    /\ isTranscribing' = Latest(isTranscribing, updTranscribing)
    /\ finalizedTranscripts' = ApplyUpdates(finalizedTranscripts, updFinalized)
    /\ currentTranscript' = Latest(currentTranscript, updTranscript)
    /\ callActive' = Latest(callActive, updCallActive)
    /\ isUserSpeaking' = isSpeaking
    /\ updTranscribing' = <<>> /\ updFinalized' = <<>>
    /\ updTranscript' = <<>> /\ updCallActive' = <<>>
    /\ changed' = (IF isSpeaking # isUserSpeaking THEN {"isSpeaking"} ELSE {})
                  \cup (IF updFinalized # <<>> THEN {"finalizedTranscripts"} ELSE {})
    /\ effectsPending' = TRUE
    /\ lastCall' = [ev |-> "other", finals |-> nFinals, calls |-> nCalls]
    /\ UNCHANGED <<bufVars, queueState, clearVars, flagVars, isSpeaking,
                   isSpeakingRef, speechFinalReceivedRef, sttSocket, streamRef,
                   startPending, lastTranscriptRef, socket, sent,
                   serverVars>>

\* the assignments that empty the buffer (page.tsx 224-226, 244-246, 261-263)
ResetBuffer ==
    /\ textBuffer' = <<>>
    /\ isProcessing' = FALSE
    /\ pendingFlush' = FALSE
    /\ resetMark' = Len(appended)

ShouldSendAlways(combinedTranscript, lastTranscript) == combinedTranscript # <<>>

FinalizedKeptAfterSend(finalized) == finalized

\* setFinalizedTranscripts([]) (page.tsx 221)
FinalizedAfterSend(finalized) == <<>>

\* the test of the send-transcript effect (page.tsx 222)
ShouldSend(combinedTranscript, lastTranscript) ==
    combinedTranscript # <<>> /\ combinedTranscript # lastTranscript

\* the condition of the send-transcript effect (page.tsx 219)
SendCondition ==
    ~isUserSpeaking /\ Len(finalizedTranscripts) > 0 /\ socket = "connected"

\* the effects of a commit: the one that copies isSpeaking to its ref (Hero.tsx
\* 59-61) and the send-transcript effect (page.tsx 215-235), each run when a
\* state it depends on changed in the commit
PageEffects ==
    /\ effectsPending
    /\ effectsPending' = FALSE
    /\ changed' = {}
    /\ isSpeakingRef' = IF "isSpeaking" \in changed THEN isUserSpeaking
                        ELSE isSpeakingRef
    /\ IF changed # {} /\ SendCondition
       THEN LET combinedTranscript == join(finalizedTranscripts)
                sends == ShouldSend(combinedTranscript, lastTranscriptRef)
            IN  /\ updFinalized' =
                     Schedule(updFinalized,
                              [op |-> "set",
                               items |-> FinalizedAfterSend(finalizedTranscripts)])
                /\ IF sends
                   THEN /\ ResetBuffer
                        /\ resetFirstAudioFlag
                        /\ sent' = Append(sent, [ev |-> "user_response",
                                                 text |-> combinedTranscript])
                        /\ lastTranscriptRef' = combinedTranscript
                   ELSE UNCHANGED <<bufRefs, flagVars, sent, lastTranscriptRef>>
                /\ lastCall' = [ev |-> IF sends THEN "send" ELSE "suppressed",
                                buf |-> textBuffer, busy |-> isProcessing,
                                finals |-> nFinals, calls |-> nCalls]
       ELSE /\ UNCHANGED <<updFinalized, bufRefs, flagVars, sent, lastTranscriptRef>>
            /\ lastCall' = [ev |-> "other", finals |-> nFinals, calls |-> nCalls]
    /\ UNCHANGED <<bufHist, committedVars, queueState, clearVars, isSpeaking,
                   updTranscribing, updTranscript, speechFinalReceivedRef,
                   sttSocket, streamRef, startPending, updCallActive, socket,
                   serverVars>>

\* startCall after its await (page.tsx 241-251)
StartCallRest ==
    /\ updCallActive' = <<TRUE>>
    /\ ResetBuffer
    /\ sent' = IF socket = "connected"
               THEN Append(sent, [ev |-> "start_interview"]) ELSE sent

\* startCall (page.tsx 237-252) up to its await, and to its end when the
\* committed isTranscribing is true
StartCall ==
    /\ ~startPending /\ nCalls < MaxCalls
    /\ IF isTranscribing
       THEN StartCallRest /\ UNCHANGED startPending
       ELSE startPending' = TRUE /\ UNCHANGED <<updCallActive, bufRefs, sent>>
    /\ lastCall' = [ev |-> "other", finals |-> nFinals, calls |-> nCalls + 1]
    /\ UNCHANGED <<bufHist, hookVars, updQueue, nextId, enqueued,
                   isTranscribing, finalizedTranscripts, currentTranscript,
                   updTranscribing, updFinalized, updTranscript, isSpeakingRef,
                   speechFinalReceivedRef, sttSocket, streamRef, callActive,
                   lastTranscriptRef, socket, changed,
                   serverVars>>

\* how startTranscription ends (Hero.tsx 94-203): getUserMedia rejects (102),
\* the WebSocket constructor throws (109), or it runs to its end, and then the
\* connection is established, or fails, for which there is no handler
StartTranscriptionOutcomes ==
    {"getUserMedia_rejects", "WebSocket_throws", "connection_fails", "ok"}
Throws == {"getUserMedia_rejects", "WebSocket_throws"}

\* the startTranscription that startCall awaits settles (Hero.tsx 94-203), and
\* startCall runs to its end or rejects (page.tsx 239-251)
StartTranscriptionSettles(outcome) ==
    /\ startPending
    /\ startPending' = FALSE
    /\ streamRef' = IF outcome = "getUserMedia_rejects" THEN streamRef ELSE TRUE
    /\ IF outcome \in Throws
       THEN UNCHANGED <<sttSocket, updTranscribing, updCallActive, bufRefs, sent>>
       ELSE /\ sttSocket' = IF outcome = "ok" THEN "open" ELSE "failed"
            /\ updTranscribing' = <<TRUE>>
            /\ StartCallRest
    /\ lastCall' = [ev |-> "start_settled", outcome |-> outcome,
                    threw |-> outcome \in Throws,
                    finals |-> nFinals, calls |-> nCalls]
    /\ UNCHANGED <<bufHist, hookVars, updQueue, nextId, enqueued,
                   isTranscribing, finalizedTranscripts, currentTranscript,
                   updFinalized, updTranscript, isSpeakingRef,
                   speechFinalReceivedRef, callActive, lastTranscriptRef,
                   socket, changed,
                   serverVars>>

\* stopCall (page.tsx 254-264)
StopCall ==
    /\ IF isTranscribing THEN stopTranscription
       ELSE UNCHANGED <<sttSocket, streamRef, isSpeakingRef, isSpeaking,
                        speechFinalReceivedRef, updTranscribing, updTranscript>>
    /\ updCallActive' = <<FALSE>>
    /\ clearQueue
    /\ ResetBuffer
    /\ lastCall' = [ev |-> "stopCall", stopped |-> isTranscribing,
                    finals |-> nFinals, calls |-> nCalls]
    /\ UNCHANGED <<bufHist, committedVars, queueState, flagVars, effectsPending,
                   updFinalized, startPending, lastTranscriptRef, socket,
                   changed, sent,
                   serverVars>>

\* the isTranscribing that the handlers installed by the socket effect read:
\* the effect runs once per interviewId (page.tsx 121, 213), so they close
\* over the value of the first render, which is the initial one (Hero.tsx 52)
isTranscribingAtMount == FALSE

\* socket.on('interview_completed') (page.tsx 171-193); the timer it starts
\* only navigates away (189-191)
InterviewCompleted ==
    /\ socket = "connected"
    /\ IF isTranscribingAtMount THEN stopTranscription
       ELSE UNCHANGED <<sttSocket, streamRef, isSpeakingRef, isSpeaking,
                        speechFinalReceivedRef, updTranscribing, updTranscript>>
    /\ updCallActive' = <<FALSE>>
    /\ clearQueue
    /\ socket' = "disconnected"
    /\ lastCall' = [ev |-> "interview_completed", active |-> isTranscribing,
                    finals |-> nFinals, calls |-> nCalls]
    /\ UNCHANGED <<bufVars, committedVars, queueState, flagVars, effectsPending,
                   updFinalized, startPending, lastTranscriptRef, changed, sent,
                   serverVars>>

\* the socket's connect event (page.tsx 147-149)
SocketConnect ==
    /\ socket = "connecting"
    /\ socket' = "connected"
    /\ sent' = Append(sent, [ev |-> "join_interview"])
    /\ lastCall' = [ev |-> "other", finals |-> nFinals, calls |-> nCalls]
    /\ UNCHANGED <<bufVars, hookVars, updQueue, nextId, enqueued, sessVars,
                   callActive, updCallActive, lastTranscriptRef, changed,
                   serverVars>>

\* the connection is lost; it is not made again (reconnection: false, 138)
SocketDisconnect ==
    /\ socket = "connected"
    /\ socket' = "disconnected"
    /\ lastCall' = [ev |-> "other", finals |-> nFinals, calls |-> nCalls]
    /\ UNCHANGED <<bufVars, hookVars, updQueue, nextId, enqueued, sessVars,
                   callActive, updCallActive, lastTranscriptRef, changed, sent,
                   serverVars>>

InitPage ==
    /\ InitBufferVars /\ InitHookVars /\ InitCallVars
    /\ hasCallback = FALSE /\ socket = "connecting"

NextSession ==
    \/ UtteranceEnd
    \/ \E result \in Utterances : Transcript(result, FALSE, FALSE)
    \/ \E result \in Utterances, speechFinal \in BOOLEAN :
            Transcript(result, TRUE, speechFinal)
    \/ PageRender
    \/ PageEffects
    \/ StartCall
    \/ \E outcome \in StartTranscriptionOutcomes : StartTranscriptionSettles(outcome)
    \/ StopCall
    \/ SocketConnect
    \/ SocketDisconnect
    \/ InterviewCompleted

\* the transcription session and the page under the messages of the
\* transcription service, the user's startCall and stopCall, the events of
\* the page's socket other than streamed text, and React's renders
SpecSession == InitPage /\ [][NextSession]_vars

NextPage ==
    \/ \E chunk \in PageChunks :
            socket = "connected" /\ nAppends < MaxPageAppends /\ TextChunk(chunk)
    \/ socket = "connected" /\ TextComplete
    \/ \E i \in 1..Len(converting), ok \in BOOLEAN : SynthesisDone(i, ok)
    \/ Transcript(<<1>>, TRUE, TRUE)
    \/ PageRender
    \/ PageEffects
    \/ StartCall
    \/ \E outcome \in {"getUserMedia_rejects", "ok"} : StartTranscriptionSettles(outcome)
    \/ StopCall
    \/ SocketConnect

\* the page with text streamed to it, under the user's startCall and stopCall,
\* utterances that end with speech_final, the settling of conversions, and
\* React's renders
SpecPage == InitPage /\ [][NextPage]_vars

\* a call in progress: the socket connected, startCall ran to its end and
\* the render after it was committed
InitSend ==
    /\ InitBufferVars /\ InitHookVars /\ InitServerVars /\ hasCallback = FALSE
    /\ isTranscribing = TRUE
    /\ finalizedTranscripts = <<>>
    /\ currentTranscript = <<>>
    /\ updTranscribing = <<>>
    /\ updFinalized = <<>>
    /\ updTranscript = <<>>
    /\ isSpeakingRef = FALSE
    /\ speechFinalReceivedRef = FALSE
    /\ sttSocket = "open"
    /\ streamRef = TRUE
    /\ startPending = FALSE
    /\ callActive = TRUE
    /\ updCallActive = <<>>
    /\ lastTranscriptRef = <<>>
    /\ socket = "connected"
    /\ changed = {}
    /\ sent = << [ev |-> "join_interview"], [ev |-> "start_interview"] >>
    /\ lastCall = [ev |-> "other", finals |-> 0, calls |-> 1]

NextSend ==
    \/ UtteranceEnd
    \/ \E result \in Utterances : Transcript(result, FALSE, FALSE)
    \/ \E result \in Utterances, speechFinal \in BOOLEAN :
            Transcript(result, TRUE, speechFinal)
    \/ PageRender
    \/ PageEffects
    \/ SocketDisconnect
    \/ \E chunk \in PageChunks :
            socket = "connected" /\ nAppends < MaxPageAppends /\ TextChunk(chunk)
    \/ socket = "connected" /\ TextComplete

\* a call in progress: the user's utterances and the text streamed back, up
\* to the settling of the conversions it starts
SpecSend == InitSend /\ [][NextSend]_vars

\* the text of the next final transcript: the utterances of a behaviour are
\* told apart by their texts
NextUtterance == <<nFinals + 1>>

NextMessages ==
    \/ UtteranceEnd
    \/ Transcript(NextUtterance, FALSE, FALSE)
    \/ \E speechFinal \in BOOLEAN : Transcript(NextUtterance, TRUE, speechFinal)
    \/ \E isFinal \in BOOLEAN : Transcript(<<>>, isFinal, FALSE)
    \/ UnparseableMessage
    \/ PageRender
    \/ PageEffects

\* a call in progress: every sequence of messages of the transcription
\* service, each final transcript with a text of its own, and React's renders
SpecMessages == InitSend /\ [][NextMessages]_vars

(***************************************************************************)
(* The server: handleInterview and the map activeSessions.                 *)
(*                                                                         *)
(* Every socket here belongs to the same user and joins the same           *)
(* interview, so there is one session key.  A socket's join is "none"      *)
(* before join_interview, "loading" while handleInterview awaits the       *)
(* database (interviewHandler.ts 43-56), "running" once the session        *)
(* handlers are registered (88-135), "failed" after the interview was not  *)
(* found or the call threw, "rejected" after the duplicate check.          *)
(***************************************************************************)
clientVars == <<bufVars, hookVars, updQueue, nextId, enqueued, sessVars, pageVars>>
contextVars == <<serverProcessing, stage, questionsAsked, handling, serverHist>>

\* const sessionKey = `${interviewId}-${userId}` (interviewHandler.ts 25)
sessionKey == "interview-user"

LoadOutcomes == {"ok", "not_found", "throws"}

\* join_interview (server.ts 66-76) up to the first await of handleInterview
\* (interviewHandler.ts 19-43)
JoinInterview(s) ==
    /\ sockets[s].connected /\ sockets[s].join # "loading"
    /\ IF sessionKey \in activeSessions
       THEN /\ sockets' = [sockets EXCEPT ![s].join =
                              IF @ = "running" THEN "running" ELSE "rejected"]
            /\ UNCHANGED activeSessions
       ELSE /\ activeSessions' = activeSessions \cup {sessionKey}
            /\ sockets' = [sockets EXCEPT ![s].join = "loading",
                                          ![s].cleanup = TRUE]
    /\ UNCHANGED <<clientVars, contextVars>>

\* handleInterview after its awaits (interviewHandler.ts 43-141): the
\* interview is not found (44-48), a statement throws (137-141), or the
\* session handlers are registered (88-135)
LoadSettles(s, outcome) ==
    /\ sockets[s].join = "loading"
    /\ IF outcome = "ok"
       THEN /\ sockets' = [sockets EXCEPT ![s].join = "running"]
            /\ UNCHANGED activeSessions
       ELSE /\ sockets' = [sockets EXCEPT ![s].join = "failed"]
            /\ activeSessions' = activeSessions \ {sessionKey}
    /\ UNCHANGED <<clientVars, contextVars>>

\* the socket disconnects: the handlers registered at interviewHandler.ts
\* 36-39 run
Disconnect(s) ==
    /\ sockets[s].connected
    /\ sockets' = [sockets EXCEPT ![s].connected = FALSE]
    /\ activeSessions' = IF sockets[s].cleanup
                         THEN activeSessions \ {sessionKey}
                         ELSE activeSessions
    /\ UNCHANGED <<clientVars, contextVars>>

InitJoin ==
    /\ InitBufferVars /\ InitHookVars /\ InitCallVars
    /\ hasCallback = FALSE /\ socket = "connecting"

NextJoin ==
    \/ \E s \in Sockets : JoinInterview(s)
    \/ \E s \in Sockets, outcome \in LoadOutcomes : LoadSettles(s, outcome)
    \/ \E s \in Sockets : Disconnect(s)

\* the sockets of one user that join one interview, in every order
SpecJoin == InitJoin /\ [][NextJoin]_vars

(***************************************************************************)
(* The server: one interview session, its context and its two handlers.    *)
(*                                                                         *)
(* A message of the user is told by the words the service looks for in it: *)
(* "yes" holds a word of readiness, "bye" one of farewell, "okay" is in    *)
(* both lists, "hm" in neither.                                            *)
(***************************************************************************)
maxQuestions == 3

Stages == <<"greeting", "small_talk", "ready_check", "interview", "closing">>
StageRank(st) == CHOOSE i \in 1..Len(Stages) : Stages[i] = st

Messages == {"yes", "bye", "okay", "hm"}

\* isReadyConfirmation (interview-conversation-service.ts 349-353)
isReadyConfirmation(message) == message \in {"yes", "okay"}

\* isGoodbyeConfirmation (358-362)
isGoodbyeConfirmation(message) == message \in {"bye", "okay"}

\* generateResponse up to its first await (214-249, 261): the stage and the
\* counter it leaves, and what it then waits for: the completion of the
\* interview ("complete"), the stream of an interview question ("question")
\* or of another reply ("reply")
generateResponse(st, asked, userMessage) ==
    IF st = "small_talk"
    THEN [stage |-> "ready_check", questionsAsked |-> asked, handling |-> "reply"]
    ELSE IF st = "ready_check"
    THEN IF isReadyConfirmation(userMessage)
         THEN [stage |-> "interview", questionsAsked |-> 1, handling |-> "question"]
         ELSE [stage |-> st, questionsAsked |-> asked, handling |-> "reply"]
    ELSE IF st = "interview"
    THEN IF asked < maxQuestions
         THEN [stage |-> st, questionsAsked |-> asked + 1, handling |-> "question"]
         ELSE [stage |-> "closing", questionsAsked |-> asked, handling |-> "reply"]
    ELSE IF st = "closing" /\ isGoodbyeConfirmation(userMessage)
    THEN [stage |-> st, questionsAsked |-> asked, handling |-> "complete"]
    ELSE [stage |-> st, questionsAsked |-> asked, handling |-> "reply"]

nMessages == serverHist.messages

\* socket.on('start_interview') up to its first await (interviewHandler.ts
\* 88-99)
StartInterview ==
    /\ nMessages < MaxMessages
    /\ IF serverProcessing
       THEN UNCHANGED <<serverProcessing, handling>>
       ELSE serverProcessing' = TRUE /\ handling' = "greeting"
    /\ serverHist' = [serverHist EXCEPT !.messages = @ + 1, !.ev = "start_interview"]
    /\ UNCHANGED <<clientVars, activeSessions, sockets, stage, questionsAsked>>

\* the rest of the start_interview handler (interviewHandler.ts 99-114):
\* startInterview emits text_complete, from the stream or the fallback, and
\* sets the stage (interview-conversation-service.ts 126-183)
StartInterviewSettles ==
    /\ handling = "greeting"
    /\ stage' = "small_talk"
    /\ serverProcessing' = FALSE
    /\ handling' = "none"
    /\ serverHist' = [serverHist EXCEPT !.ev = "text_complete"]
    /\ UNCHANGED <<clientVars, activeSessions, sockets, questionsAsked>>

\* socket.on('user_response') up to its first await (interviewHandler.ts
\* 118-128, interview-conversation-service.ts 188-249)
UserResponse(userMessage) ==
    /\ nMessages < MaxMessages
    /\ IF serverProcessing
       THEN UNCHANGED <<serverProcessing, handling, stage, questionsAsked>>
       ELSE LET r == generateResponse(stage, questionsAsked, userMessage)
            IN  /\ serverProcessing' = TRUE
                /\ stage' = r.stage
                /\ questionsAsked' = r.questionsAsked
                /\ handling' = r.handling
    /\ serverHist' = [serverHist EXCEPT !.messages = @ + 1, !.responses = @ + 1,
                                        !.ev = "user_response"]
    /\ UNCHANGED <<clientVars, activeSessions, sockets>>

\* the rest of the user_response handler (interviewHandler.ts 128-134):
\* generateResponse emits text_complete, from the stream (ok) or the fallback
\* (interview-conversation-service.ts 251-306); completeInterview emits
\* interview_completed (ok) or error (367-414)
UserResponseSettles(ok) ==
    /\ handling \in {"reply", "question", "complete"}
    /\ serverProcessing' = FALSE
    /\ handling' = "none"
    /\ serverHist' =
         [serverHist EXCEPT
            !.replies = @ + 1,
            !.put = @ + (IF ok /\ handling = "question" THEN 1 ELSE 0),
            !.ev = IF handling # "complete" THEN "text_complete"
                   ELSE IF ok THEN "interview_completed" ELSE "error"]
    /\ UNCHANGED <<clientVars, activeSessions, sockets, stage, questionsAsked>>

NextServer ==
    \/ StartInterview
    \/ StartInterviewSettles
    \/ \E userMessage \in Messages : UserResponse(userMessage)
    \/ \E ok \in BOOLEAN : UserResponseSettles(ok)

\* one session of the server under every sequence of start_interview and
\* user_response messages and every outcome of the calls it awaits
SpecServer == InitJoin /\ [][NextServer]_vars

(***************************************************************************)
(* Claims about the text-chunk buffer, checked under SpecBuffer.           *)
(***************************************************************************)
\* the non-blank characters of a text
Letters(text) == {text[k] : k \in DOMAIN text} \ {0}

\* a text with every run of blanks replaced by one blank and none at the ends
Normalized(text) == join(runs(text))

ConversionStartedByLast == Len(synthLog) = last.calls + 1
NoConversionStartedByLast == Len(synthLog) = last.calls
LastWasCompletion == last.ev \in {"synth_ok", "synth_fail"}

\* C1: over text_chunk, text_complete and completions (resolved or rejected),
\* at most one call of textToAudioBuffer is in flight in every reachable state.
C1_AtMostOneConversionInFlight == Len(converting) <= 1

\* a rejected conversion released the lock with a flush deferred, and the
\* deferred flush holds the lock again
C1_Witness ==
    /\ last.ev = "synth_fail" /\ last.pend
    /\ Len(converting) = 1 /\ isProcessing

\* C2: after appends ended by one forced flush, once every conversion has
\* resolved, the batches passed to the synthesizer, put together in call
\* order, are the appended text with its whitespace normalized: the same
\* words, whole, in the same order.
C2_BatchesAreTheAppendedText ==
    (last.flushed /\ last.flushes = 1 /\ ~isProcessing /\ ~pendingFlush /\ converting = <<>>
        /\ ~synthFailed)
    => Normalized(join(synthLog)) = Normalized(appended)

C4_DeferredFlushHonored ==
    /\ (last.ev = "text_complete" /\ last.busy)
        => (pendingFlush /\ textBuffer = last.buf /\ NoConversionStartedByLast)
    /\ (LastWasCompletion /\ last.pend)
        => /\ ~pendingFlush
           /\ countWords(last.buf) > 0
                => (ConversionStartedByLast /\ converting = <<last.buf>>
                    /\ synthLog[Len(synthLog)] = last.buf /\ textBuffer = <<>>)
           /\ countWords(last.buf) = 0
                => (NoConversionStartedByLast /\ textBuffer = last.buf)

\* a conversion was rejected while a forced flush was deferred and words
\* were waiting in the buffer
C4_Witness ==
    last.ev = "synth_fail" /\ last.pend /\ countWords(last.buf) > 0

\* C10: a flush attempt with no conversion in flight starts a conversion
\* exactly when the buffer holds 20 words or more, or the attempt is forced
\* and the buffer holds a word; while fewer than 20 words have been appended
\* in total an append starts none, and the append that brings the buffer to
\* 20 words starts one with all 20 words and empties the buffer.
C10_ConversionStartsIffThreshold ==
    /\ (last.ev \in {"text_chunk", "text_complete"} /\ ~last.busy)
        => (ConversionStartedByLast
            <=> (countWords(last.buf) >= 20
                 \/ (last.ev = "text_complete" /\ countWords(last.buf) > 0)))
    /\ (LastWasCompletion /\ ~last.pend)
        => (ConversionStartedByLast <=> countWords(last.buf) >= 20)
    /\ (last.ev = "text_chunk" /\ Len(runs(appended)) < 20)
        => NoConversionStartedByLast
    /\ (last.ev = "text_chunk" /\ ~last.busy /\ countWords(last.buf) = 20)
        => (converting = <<Normalized(last.buf)>> /\ textBuffer = <<>>)

\* the second append brought the buffer from 19 words to 20
C10_Witness ==
    /\ last.ev = "text_chunk" /\ ~last.busy /\ last.appends = 2
    /\ countWords(last.buf) = 20 /\ last.calls = 0
    /\ Len(converting) = 1 /\ textBuffer = <<>>

\* the last event called processTextBuffer with forceFlush = true
LastWasForced ==
    last.ev = "text_complete" \/ (LastWasCompletion /\ last.pend)

\* C11: when a conversion starts, a forced flush passes the whole buffer to
\* the synthesizer, whatever its word count, and leaves the buffer empty; an
\* unforced one passes the first 20 words of the buffer joined by single
\* blanks and leaves the words after them, in order and joined by single
\* blanks, as the new buffer.
C11_BatchIsWholeBufferOrFirstTwenty ==
    ConversionStartedByLast
    => LET batch == synthLog[Len(synthLog)]
           words == runs(last.buf)
       IN  IF LastWasForced
           THEN batch = last.buf /\ textBuffer = <<>>
           ELSE /\ batch = join(SubSeq(words, 1, BatchWords))
                /\ textBuffer = join(SubSeq(words, BatchWords + 1, Len(words)))

\* an append found more than 20 words in the buffer with the lock free: 20
\* were cut off and the others were kept
C11_Witness ==
    /\ last.ev = "text_chunk" /\ ConversionStartedByLast
    /\ countWords(last.buf) > BatchWords
    /\ countWords(textBuffer) = countWords(last.buf) - BatchWords

\* C12: when two or more forced flushes arrived while one conversion was in
\* flight, the end of that conversion clears the record and passes the whole
\* buffer to the synthesizer (a buffer without a word starts nothing), so
\* that no word is left in the buffer and every character appended so far,
\* the text that came between the flushes included, has been passed to the
\* synthesizer.
C12_TwoDeferredFlushesServiced ==
    (LastWasCompletion /\ last.deferred = 2)
    => /\ ~pendingFlush
       /\ Letters(textBuffer) = {}
       /\ countWords(last.buf) > 0
            => (converting = <<last.buf>> /\ textBuffer = <<>>)
       /\ Letters(appended) = Letters(join(synthLog))

\* a conversion ended after two forced flushes were deferred with a word
\* appended between them
C12_Witness ==
    /\ LastWasCompletion /\ last.deferred = 2 /\ last.between
    /\ countWords(last.buf) > 0 /\ converting = <<last.buf>>

\* the non-blank characters of a text, in order
LetterSeq(text) == SelectSeq(text, LAMBDA c : c # 0)

\* C18: a text_chunk or text_complete that arrives while a conversion is in
\* flight starts no conversion and removes no text: the chunk is added at
\* the end of the buffer, the flush is only recorded. In every state the
\* characters passed to the synthesizer so far followed by those in the
\* buffer are the characters appended so far, each once and in order; so
\* once a forced flush has ended the stream and every conversion has
\* settled, every character appended has been passed to the synthesizer.
C18_NoTextLostInRaces ==
    /\ (last.ev = "text_chunk" /\ last.busy)
        => (NoConversionStartedByLast /\ textBuffer = last.buf
            /\ pendingFlush = last.pend)
    /\ (last.ev = "text_complete" /\ last.busy)
        => (NoConversionStartedByLast /\ textBuffer = last.buf /\ pendingFlush)
    /\ LetterSeq(join(synthLog) \o textBuffer) = LetterSeq(appended)
    /\ (last.flushed /\ ~isProcessing /\ ~pendingFlush /\ converting = <<>>)
        => LetterSeq(join(synthLog)) = LetterSeq(appended)

\* a forced flush started a conversion (leaving the buffer empty), text was
\* appended and a flush requested while it was in flight, and when it
\* settled that text was passed to the synthesizer
C18_Witness ==
    /\ LastWasCompletion /\ last.deferred = 1 /\ ~last.between /\ last.flushed
    /\ Len(synthLog) = 2 /\ countWords(synthLog[1]) < BatchWords
    /\ countWords(last.buf) > 0 /\ converting = <<last.buf>>

\* C19: when a conversion is rejected nothing is enqueued for its batch, its
\* text is neither put back in the buffer nor passed to the synthesizer
\* again, and the lock is released: it is held afterwards only by a
\* conversion started on the spot, for the deferred forced flush (the whole
\* buffer) or for a buffer of 20 words or more, so that later text is still
\* converted.
C19_FailureDoesNotHaltBuffer ==
    [][(last'.ev = "synth_fail" /\ last' # last /\ Len(converting) = 1)
        => LET failed == converting[1]
           IN  /\ enqueued' = enqueued /\ updQueue' = updQueue
               /\ Letters(textBuffer') \cap Letters(failed) = {}
               /\ \A i \in 1..Len(converting') :
                     Letters(converting'[i]) \cap Letters(failed) = {}
               /\ isProcessing' <=> converting' # <<>>
               /\ (pendingFlush /\ countWords(textBuffer) > 0)
                     => (converting' = <<textBuffer>> /\ ~pendingFlush')
               /\ (~pendingFlush /\ countWords(textBuffer) >= BatchWords)
                     => converting' # <<>>]_vars

\* a conversion was rejected with no flush deferred and 20 words or more
\* waiting, and the next batch was started; nothing has been enqueued
C19_Witness ==
    /\ last.ev = "synth_fail" /\ ~last.pend /\ ConversionStartedByLast
    /\ countWords(last.buf) >= BatchWords /\ enqueued = <<>>

\* C23: when a conversion settles the lock is released and the follow-up is
\* started at once, so the lock is held afterwards exactly if the follow-up
\* started a conversion; and whenever no conversion is in flight the lock is
\* free, the buffer holds fewer than 20 words and no flush is deferred.
C23_AtRestBelowThresholdAndNoFlushDeferred ==
    /\ LastWasCompletion
        => /\ isProcessing <=> ConversionStartedByLast
           /\ last.pend => ~pendingFlush
    /\ converting = <<>>
        => /\ ~isProcessing
           /\ countWords(textBuffer) < BatchWords
           /\ ~pendingFlush

\* a conversion resolved with 20 words or more waiting and no flush
\* deferred, and the follow-up took the first 20 and left words behind
C23_Witness ==
    /\ last.ev = "synth_ok" /\ ~last.pend /\ countWords(last.buf) >= BatchWords
    /\ ConversionStartedByLast /\ countWords(textBuffer) > 0

(***************************************************************************)
(* Claims about the playback queue, checked under SpecQueue.               *)
(***************************************************************************)
\* the queue state the next render will commit
QueueAfterUpdates == ApplyUpdates(queue, updQueue)

\* nothing is scheduled and no effect is waiting: the hook is at rest
Settled ==
    /\ ~effectsPending
    /\ updQueue = <<>> /\ updPlaying = <<>> /\ updText = <<>>
    /\ isSpeaking = isUserSpeaking

\* C5: items begin playback in the order they were enqueued, and every item
\* that has begun playback was enqueued before every item still queued.
C5_PlaybackInEnqueueOrder ==
    /\ \A i, j \in 1..Len(started) : i < j => started[i] < started[j]
    /\ \A i \in 1..Len(started), k \in 1..Len(QueueAfterUpdates) :
            started[i] < QueueAfterUpdates[k].id

\* three items were enqueued and all three have begun playback, in order
C5_Witness ==
    started = <<1, 2, 3>> /\ ~isSpeaking /\ ~isUserSpeaking /\ sounding = {3}

\* C6: when the interrupt fires (a commit with the speaking signal true while
\* the queue is playing), whatever was playing is stopped and the queued
\* items are left as they are.
C6_InterruptStopsWhatPlays ==
    [][InterruptEffect
        => (sounding' = {} /\ queue' = queue /\ updQueue' = updQueue)]_vars

\* C13: an item begins playback only in a state where the user-speaking
\* signal is false, the queue is idle (isPlaying is false and no source
\* sounds) and the item is the head of the queue.
C13_StartsOnlyWhenIdleAndSilent ==
    [][started' # started
        => /\ ~isUserSpeaking
           /\ ~isPlaying /\ sounding = {}
           /\ queue # <<>> /\ started' = Append(started, Head(queue).id)]_vars

\* C20: when the start of an item's playback fails, the item is discarded
\* (it is not in the queue the next render commits and it never starts),
\* nothing sounds that did not sound before, isPlaying and the playing text
\* are set back, and the next render, which the update of the queue brings
\* about, commits the items behind it with isPlaying false; and the hook
\* never rests with items queued, the user not speaking and nothing playing.
C20_FailedStartDoesNotStall ==
    /\ [](\A i \in 1..Len(failedStarts) :
            /\ \A k \in 1..Len(started) : started[k] # failedStarts[i]
            /\ \A k \in 1..Len(QueueAfterUpdates) :
                  QueueAfterUpdates[k].id # failedStarts[i])
    /\ []((Settled /\ queue # <<>> /\ ~isUserSpeaking) => isPlaying)
    /\ [][failedStarts' # failedStarts
            => /\ failedStarts' = Append(failedStarts, Head(queue).id)
               /\ sounding' \subseteq sounding
               /\ updQueue' # <<>> /\ QueueAfterUpdates' = Tail(queue)
               /\ Latest(isPlaying', updPlaying') = FALSE
               /\ Latest(currentPlayingText', updText') = <<>>]_vars

\* the start of item 1 failed with item 2 queued behind it, and item 2 has
\* begun playback
C20_Witness ==
    /\ failedStarts = <<1>> /\ started = <<2>> /\ sounding = {2}

\* C7: with a first-audio callback, it has been called exactly once since
\* creation or the last resetFirstAudioFlag if an item has started playing
\* since then, and not at all otherwise; without one it is never called.
C7_FirstAudioOncePerCycle ==
    firstAudioCalls = IF hasCallback /\ startsSinceReset > 0 THEN 1 ELSE 0

\* one item started before a reset and two after it, the callback called
\* once since the reset
C7_Witness ==
    /\ hasCallback /\ Len(started) = 3
    /\ startsSinceReset = 2 /\ firstAudioCalls = 1

\* C8: at most one source that was started has neither ended nor been
\* stopped.
C8_AtMostOneSourceSounds == Cardinality(sounding) <= 1

\* C9: with the hook at rest, isPlaying is true exactly when
\* currentSourceRef holds a source.
C9_PlayingIffSourceHeld == Settled => (isPlaying <=> currentSourceRef # 0)

\* C21: the "ended" event of a source that was silenced by stop() (by the
\* interrupt, by clearQueue or by the start of another item) changes neither
\* the playing flag nor the displayed text nor the source the hook holds
C21_DiscardedEndedChangesNothing ==
    [][\A src \in discarded :
          (src \in endedQueued /\ src \notin endedQueued')
          => /\ Latest(isPlaying, updPlaying') = Latest(isPlaying, updPlaying)
             /\ Latest(currentPlayingText, updText')
                  = Latest(currentPlayingText, updText)
             /\ currentSourceRef' = currentSourceRef]_vars

\* C22: while the caller stays silent and every playback that starts plays to
\* its end, every item that was enqueued eventually begins playback.
C22_EveryItemEventuallyStarts ==
    \A i \in 1..(MaxItems + 1) :
        (i < nextId) ~> (\E k \in 1..Len(started) : started[k] = i)

\* C34: with no clearQueue and no failed start, every item enqueued so far
\* either has begun playback or is in the queue the next render commits, not
\* both, and no item has begun playback twice.
C34_EveryItemStartedOnceOrQueued ==
    LET queuedIds == {QueueAfterUpdates[k].id : k \in 1..Len(QueueAfterUpdates)}
        startedIds == {started[k] : k \in 1..Len(started)}
    IN  /\ \A i \in 1..(nextId - 1) : (i \in startedIds) # (i \in queuedIds)
        /\ Cardinality(startedIds) = Len(started)

(***************************************************************************)
(* Claims about the page and the transcription session.                    *)
(***************************************************************************)
RECURSIVE JoinedBySpaces(_)
\* the texts of a sequence one after the other with one blank between them
JoinedBySpaces(texts) ==
    IF texts = <<>> THEN <<>>
    ELSE IF Len(texts) = 1 THEN texts[1]
    ELSE texts[1] \o <<0>> \o JoinedBySpaces(Tail(texts))

\* the finalized utterances the next render will commit
FinalizedAfterUpdates == ApplyUpdates(finalizedTranscripts, updFinalized)

\* C14 (SpecSend): when the effects of a commit run with the speaking signal
\* false, finalized utterances pending and the socket connected, the pending
\* utterances are cleared; if their texts joined by single blanks differ from
\* the text sent last, that text is sent as user_response and remembered, and
\* the buffer and the first-audio flag are reset; if it is the same text,
\* nothing is sent and the buffer, its lock, its deferred flush and the
\* first-audio flag are left as they are.
C14_SendsOnlyWhatDiffers ==
    [][(effectsPending /\ ~effectsPending' /\ changed # {} /\ SendCondition)
        => LET combined == JoinedBySpaces(finalizedTranscripts)
           IN  /\ FinalizedAfterUpdates' = <<>>
               /\ IF combined # lastTranscriptRef
                  THEN /\ sent' = Append(sent, [ev |-> "user_response",
                                                text |-> combined])
                       /\ lastTranscriptRef' = combined
                       /\ textBuffer' = <<>> /\ ~isProcessing' /\ ~pendingFlush'
                       /\ ~hasPlayedFirstAudio'
                  ELSE /\ sent' = sent
                       /\ lastTranscriptRef' = lastTranscriptRef
                       /\ textBuffer' = textBuffer
                       /\ isProcessing' = isProcessing
                       /\ pendingFlush' = pendingFlush
                       /\ hasPlayedFirstAudio' = hasPlayedFirstAudio]_vars

\* an utterance equal to the one sent before was not sent again, while the
\* buffer held text and a conversion was in flight, and both were left alone
C14_Witness ==
    /\ lastCall.ev = "suppressed"
    /\ lastCall.buf # <<>> /\ lastCall.busy
    /\ textBuffer = lastCall.buf /\ isProcessing
    /\ Len(SelectSeq(sent, LAMBDA e : e.ev = "user_response")) = 1

\* C15 (SpecSession): after stopTranscription the session's state is its initial
\* state: not speaking, no finalized utterance pending, no interim text.
C15_StopResetsDerivedState ==
    (lastCall.ev = "stopCall" /\ lastCall.stopped)
    => /\ ~isSpeaking
       /\ FinalizedAfterUpdates = <<>>
       /\ Latest(currentTranscript, updTranscript) = <<>>

\* the ways a start of the transcription session fails
StartFailures == {"getUserMedia_rejects", "WebSocket_throws", "connection_fails"}

\* C16 (SpecSession): when the microphone cannot be acquired or the connection
\* to the transcription service cannot be set up, startCall rejects and
\* leaves callActive and isTranscribing as they were and sends nothing.
C16_FailedStartLeavesNotStarted ==
    [][(startPending /\ ~startPending' /\ lastCall'.ev = "start_settled"
            /\ lastCall'.outcome \in StartFailures)
        => /\ lastCall'.threw
           /\ Latest(callActive', updCallActive') = Latest(callActive, updCallActive)
           /\ Latest(isTranscribing', updTranscribing')
                = Latest(isTranscribing, updTranscribing)
           /\ sent' = sent]_vars

\* C17 (SpecPage): at most one call of textToAudioBuffer is in flight, also
\* when a user response is sent, startCall or stopCall runs while one is in
\* flight and text_chunk and text_complete events follow.
C17_AtMostOneConversionEver == Len(converting) <= 1

\* C24: an UtteranceEnd message sets the speaking state false if the
\* fast-path flag is not set when it is handled and leaves the speaking state
\* as it is if the flag is set; the flag is false afterwards in both cases,
\* and the finalized utterances and the interim text are not changed.
C24_UtteranceEndClearsSpeakingUnlessFastPath ==
    [][UtteranceEnd
        => /\ ~speechFinalReceivedRef => ~isSpeaking'
           /\ speechFinalReceivedRef => isSpeaking' = isSpeaking
           /\ ~speechFinalReceivedRef'
           /\ updFinalized' = updFinalized
           /\ finalizedTranscripts' = finalizedTranscripts
           /\ updTranscript' = updTranscript
           /\ currentTranscript' = currentTranscript]_vars

\* an UtteranceEnd was handled with the flag set and left the speaking state
\* true
C24_Witness ==
    lastCall.ev = "UtteranceEnd" /\ isSpeaking /\ nFinals > 0

\* C25: a final transcript with text is appended at the tail of the
\* finalized utterances; with speech_final the fast-path flag is true, the
\* speaking state false and the interim text empty afterwards; without
\* speech_final the speaking state is true afterwards and the flag is as it
\* was.
C25_FinalTranscriptHandling ==
    [][/\ Transcript(NextUtterance, TRUE, TRUE)
            => /\ FinalizedAfterUpdates' = Append(FinalizedAfterUpdates, NextUtterance)
               /\ speechFinalReceivedRef'
               /\ ~isSpeaking'
               /\ Latest(currentTranscript', updTranscript') = <<>>
       /\ Transcript(NextUtterance, TRUE, FALSE)
            => /\ FinalizedAfterUpdates' = Append(FinalizedAfterUpdates, NextUtterance)
               /\ isSpeaking'
               /\ speechFinalReceivedRef' = speechFinalReceivedRef]_vars

\* C26: the speaking state becomes true only in the handling of a transcript
\* message; a transcript message without speech_final that is handled while
\* the speaking state is false sets it true; and an interim transcript only
\* replaces the interim text: it does not set the speaking state false and
\* does not change the finalized utterances.
C26_SpeechOnsetAtFirstTranscript ==
    [][/\ (~isSpeaking /\ isSpeaking')
            => \E isFinal \in BOOLEAN : Transcript(NextUtterance, isFinal, FALSE)
       /\ \A isFinal \in BOOLEAN :
             (~isSpeaking /\ Transcript(NextUtterance, isFinal, FALSE))
             => isSpeaking'
       /\ Transcript(NextUtterance, FALSE, FALSE)
            => /\ isSpeaking => isSpeaking'
               /\ updFinalized' = updFinalized
               /\ finalizedTranscripts' = finalizedTranscripts
               /\ Latest(currentTranscript', updTranscript') = NextUtterance
               /\ speechFinalReceivedRef' = speechFinalReceivedRef]_vars

\* C27: a message that cannot be parsed, and a transcript message without
\* text, change neither the speaking state nor its ref nor the fast-path
\* flag nor the finalized utterances nor the interim text, and leave the
\* connection open for the messages that follow.
C27_DroppedMessageChangesNothing ==
    [][(UnparseableMessage \/ \E isFinal \in BOOLEAN : Transcript(<<>>, isFinal, FALSE))
        => /\ isSpeaking' = isSpeaking
           /\ isSpeakingRef' = isSpeakingRef
           /\ speechFinalReceivedRef' = speechFinalReceivedRef
           /\ updFinalized' = updFinalized
           /\ finalizedTranscripts' = finalizedTranscripts
           /\ updTranscript' = updTranscript
           /\ currentTranscript' = currentTranscript
           /\ sttSocket' = "open"]_vars

\* a message was dropped between a final transcript and the end of the
\* utterance, with interim text on display
C27_Witness ==
    /\ lastCall.ev = "dropped" /\ isSpeaking /\ ~speechFinalReceivedRef
    /\ FinalizedAfterUpdates # <<>>
    /\ Latest(currentTranscript, updTranscript) # <<>>

RECURSIVE SentUtterances(_)
\* the utterances in the user_response messages of a sequence of emitted
\* events, in the order of transmission (an utterance is told by its text)
SentUtterances(msgs) ==
    IF msgs = <<>> THEN <<>>
    ELSE (IF Head(msgs).ev = "user_response" THEN LetterSeq(Head(msgs).text)
          ELSE <<>>) \o SentUtterances(Tail(msgs))

\* C28: the utterances transmitted in user_response messages, read through
\* the messages in the order they were sent, are in the order in which they
\* were finalized, and none is transmitted twice.
C28_SentInConfirmationOrderOnce ==
    LET u == SentUtterances(sent)
    IN  /\ \A i \in 1..Len(u) : u[i] \in 1..nFinals
        /\ \A i, j \in 1..Len(u) : i < j => u[i] < u[j]

\* two user_response messages were sent, one utterance in each
C28_Witness ==
    /\ SentUtterances(sent) = <<1, 2>>
    /\ Len(SelectSeq(sent, LAMBDA m : m.ev = "user_response")) = 2

\* C30: after an UtteranceEnd message has been handled the speaking state is
\* false, whatever messages came before it.
C30_SpeakingFalseAfterUtteranceEnd ==
    lastCall.ev = "UtteranceEnd" => ~isSpeaking

\* C29: after interview_completed is handled during a call in which
\* transcription is running, transcription is stopped (the connection to the
\* transcription service and the microphone are released, isTranscribing is
\* false), the call is not active, the playback queue is empty and nothing
\* plays, and the page's socket is closed.
C29_CompletionEndsTheCall ==
    (lastCall.ev = "interview_completed" /\ lastCall.active)
    => /\ sttSocket = "none" /\ ~streamRef
       /\ Latest(isTranscribing, updTranscribing) = FALSE
       /\ Latest(callActive, updCallActive) = FALSE
       /\ QueueAfterUpdates = <<>> /\ currentSourceRef = 0
       /\ socket = "disconnected"

\* C31: every item enqueued into the playback queue was synthesized from text
\* received after the last reset of the text buffer (by a sent user response,
\* startCall or stopCall), also when a conversion was in flight at the reset.
C31_NothingEnqueuedFromBeforeReset ==
    [][\A k \in (Len(enqueued) + 1)..Len(enqueued') :
          \A c \in Letters(enqueued'[k].text) : c > resetMark]_vars

\* C32: from stopCall until the next event of the call (startCall, a message
\* of the transcription service, a render) the playback queue is empty and
\* holds no source, whatever text the server sends and whatever conversion
\* settles in between.
C32_QueueStaysEmptyAfterStopCall ==
    lastCall.ev = "stopCall"
    => QueueAfterUpdates = <<>> /\ currentSourceRef = 0 /\ sounding = {}

\* C33: every final transcript received so far is still among the finalized
\* utterances or was transmitted in a user_response: none is cleared
\* without having been sent.
C33_NoUtteranceClearedUnsent ==
    \A u \in 1..nFinals :
        \/ \E k \in 1..Len(FinalizedAfterUpdates) : FinalizedAfterUpdates[k] = <<u>>
        \/ \E k \in 1..Len(SentUtterances(sent)) : SentUtterances(sent)[k] = u

\* the sockets that run a session: connected, with the session handlers
\* registered
RunningSessions == {s \in Sockets : sockets[s].connected /\ sockets[s].join = "running"}

\* C37: at most one connected socket runs a session for the key; a join
\* while the key is active registers nothing; and while a socket runs a
\* session the key stays in activeSessions.
C37_OneSessionPerKey ==
    /\ Cardinality(RunningSessions) <= 1
    /\ RunningSessions # {} => sessionKey \in activeSessions

\* C35: questionsAsked never exceeds maxQuestions; the stage changes from
\* interview to closing only in the handling of a user response received
\* with questionsAsked equal to maxQuestions; and when the stage is closing,
\* exactly maxQuestions interview questions have been put to the user.
C35_ExactlyMaxQuestionsBeforeClosing ==
    /\ [](questionsAsked <= maxQuestions)
    /\ [][(stage = "interview" /\ stage' = "closing")
            => (questionsAsked = maxQuestions /\ serverHist'.ev = "user_response")]_vars
    /\ [](stage = "closing" => serverHist.put = maxQuestions)

\* C36: the stage of a session never moves to an earlier stage, whatever
\* start_interview and user_response messages the session receives.
C36_StageOnlyMovesForward ==
    [][StageRank(stage') >= StageRank(stage)]_vars

\* C38: when no handler of the session is in flight, every user_response
\* received so far has been answered by a text_complete, interview_completed
\* or error: none was dropped without a reply.
C38_EveryUserResponseAnswered ==
    handling = "none" => serverHist.replies = serverHist.responses

====
